---------------------------- MODULE Spec2Model ----------------------------
(***************************************************************************)
(* Model of the credit ledger of the UpPromote -> Seal bridge              *)
(* (src/src/services/creditService.js), of the commission sync adapter it  *)
(* calls (src/src/services/upPromoteClient.js) and of the two webhook      *)
(* handlers that drive it (src/src/routes/*.js).                           *)
(*                                                                         *)
(* Node runs every handler to completion between two awaits, so one action *)
(* of the model is the synchronous stretch of code between two awaits.     *)
(* Amounts are integers (minor units); parseFloat is modelled on character *)
(* sequences with an optional sign and decimal digits.                     *)
(***************************************************************************)
EXTENDS Integers, Sequences, FiniteSets, TLC

(***************************************************************************)
(* Bounds of the model.                                                    *)
(***************************************************************************)
\* consume is called with amounts -1..MaxAmount
MaxAmount == 3
\* calls of the ledger that change it or start a consume, in one behaviour
MaxOps == 4
\* adapter calls that fail, in one behaviour
MaxFailures == 1
\* webhook deliveries, in one behaviour
MaxDeliveries == 3

\* referral ids; 0 stands for a missing (falsy) id
Referrals == {1, 2}
ReferralIds == {0} \cup Referrals
\* "" stands for a missing (null, undefined or empty) email
Emails == {"a", "b"}
\* the consume calls that can be in flight at the same time
Calls == {1, 2}
Amounts == (-1)..MaxAmount

\* commission strings a payload can carry: <<>> is the missing or empty one
RawCommissions == { <<"-", "1">>, <<"1">>, <<"2">> }
OddCommissions == { <<>>, <<"x">>, <<"2", "x">> }

(***************************************************************************)
(* Helpers.                                                                *)
(***************************************************************************)
Min(a, b) == IF a <= b THEN a ELSE b

Range(s) == { s[i] : i \in 1..Len(s) }

\* a variant that moves an id that is added again to the end
SetAddLast(s, x) == Append(SelectSeq(s, LAMBDA y : y # x), x)

\* Set.prototype.add on an insertion-ordered Set
SetAdd(s, x) == IF x \in Range(s) THEN s ELSE Append(s, x)

Digits == {"0", "1", "2", "3", "4", "5", "6", "7", "8", "9"}

DigitVal(ch) ==
  CASE ch = "0" -> 0 [] ch = "1" -> 1 [] ch = "2" -> 2 [] ch = "3" -> 3
    [] ch = "4" -> 4 [] ch = "5" -> 5 [] ch = "6" -> 6 [] ch = "7" -> 7
    [] ch = "8" -> 8 [] ch = "9" -> 9

\* the longest prefix of decimal digits of s from position i, as a number;
\* n counts the digits read
RECURSIVE ParseDigits(_, _, _, _)
ParseDigits(s, i, acc, n) ==
  IF i <= Len(s) /\ s[i] \in Digits
    THEN ParseDigits(s, i + 1, acc * 10 + DigitVal(s[i]), n + 1)
    ELSE [val |-> acc, n |-> n]

\* parseFloat: optional sign, then digits; NaN when no digit follows
ParseFloat(s) ==
  LET neg == Len(s) >= 1 /\ s[1] = "-"
      signed == Len(s) >= 1 /\ s[1] \in {"-", "+"}
      d == ParseDigits(s, IF signed THEN 2 ELSE 1, 0, 0)
  IN IF d.n = 0 THEN [nan |-> TRUE, val |-> 0]
     ELSE [nan |-> FALSE, val |-> IF neg THEN 0 - d.val ELSE d.val]

(***************************************************************************)
(* State.                                                                  *)
(***************************************************************************)
VARIABLES
  referralCredits,      \* Map referralId -> record (creditService.js:7)
  customerToReferrals,  \* Map email -> insertion-ordered Set of ids (:9)
  call,                 \* the consume calls: locals and position of each
  unsynced,             \* history, per referral: what consume debited since
                        \* the last store minus what the platform applied
  window,               \* history, per customer: total credit when a consume
                        \* started with no other in flight, and what the
                        \* calls debited since
  ops,                  \* records stored and consume calls started, or
                        \* webhooks delivered, so far
  failures,             \* adapter calls of consume that failed so far
  config,               \* which settings of config.js are set
  approval,             \* the referral-approved handler: locals and position
  sub,                  \* the subscription handlers, one per consume call
  adjusted,             \* history, per referral: the negative adjustments the
                        \* platform applied, summed
  approvedMax,          \* history, per referral: the largest commission a
                        \* referral-approved webhook carried for it
  last                  \* history: the call of the ledger made by the last
                        \* step, with the ledger and the consume calls it
                        \* found

webVars == <<config, approval, sub, adjusted, approvedMax>>

vars ==
  <<referralCredits, customerToReferrals, call, unsynced, window,
    ops, failures, config, approval, sub, adjusted, approvedMax, last>>

\* the body "null": JSON.parse gives null, which has no field to read
NullPayload ==
  [ id |-> 0, commission |-> <<>>, commission_amount |-> <<>>,
    customer_email |-> "", customer_object_email |-> "",
    email |-> "", affiliate_email |-> "", isNull |-> TRUE ]

\* Payloads of the referral-approved webhook, as storeReferralCredit reads
\* them: every referral, customer and commission; a missing id; commissions
\* that are missing, not a number or followed by text; the fallback emails.
Payloads ==
  [ id : Referrals, commission : RawCommissions, commission_amount : {<<>>},
    customer_email : Emails, customer_object_email : {""},
    email : {""}, affiliate_email : {""},
    isNull : {FALSE} ]
  \cup
  [ id : {0}, commission : {<<"1">>}, commission_amount : {<<>>},
    customer_email : {"a"}, customer_object_email : {""},
    email : {""}, affiliate_email : {""},
    isNull : {FALSE} ]
  \cup
  [ id : {1}, commission : OddCommissions, commission_amount : {<<>>, <<"1">>},
    customer_email : {"a"}, customer_object_email : {""},
    email : {""}, affiliate_email : {""},
    isNull : {FALSE} ]
  \cup
  [ id : {1}, commission : {<<"1">>}, commission_amount : {<<>>},
    customer_email : {""}, customer_object_email : {"", "b"},
    email : {"", "a"}, affiliate_email : {"", "b"},
    isNull : {FALSE} ]
  \cup
  {NullPayload}

IdleCall ==
  [ pc |-> "idle", customerEmail |-> "", amountToUse |-> 0,
    remainingToUse |-> 0, breakdown |-> <<>>, pos |-> 0, id |-> 0, use |-> 0,
    used |-> 0, outcome |-> "none",
    \* history: the referrals whose sync failed; whether the call started
    \* alone on its customer and nothing else wrote the customer's records;
    \* whether the record in flight was not stored again since its debit;
    \* the balance line 171 found in the record in flight; the arguments of
    \* the adapter invocations the call made, in order
    failed |-> <<>>, clean |-> TRUE, fresh |-> TRUE, before |-> 0,
    sent |-> <<>> ]

EmptyWindow == [base |-> 0, debit |-> 0, dirty |-> FALSE]

\* no call of the ledger was made by the last step
NoCall ==
  [ op |-> "none", payload |-> <<>>, customerEmail |-> "", amountToUse |-> 0,
    c |-> 0, result |-> 0, credits |-> <<>>, index |-> <<>>, calls |-> <<>> ]

\* a handler that answered is at "responded", with the HTTP status it sent,
\* until the response is out
IdleApproval ==
  [ pc |-> "idle", referralId |-> 0,
    commissionAmount |-> [nan |-> FALSE, val |-> 0], status |-> 0,
    \* history: what went wrong in the handler
    failed |-> "none" ]

IdleSub ==
  [ pc |-> "idle", customerEmail |-> "", amountToUse |-> 0,
    availableCredit |-> 0, status |-> 0, message |-> "",
    \* history: what became of the discount application of line 91
    discount |-> "none" ]

\* config.js:3-14, a setting being set (TRUE) or left out of the environment
Configs ==
  [ uppromoteWebhookSecret : BOOLEAN, webhookSharedSecret : BOOLEAN,
    subscriptionDiscountCode : BOOLEAN ]

InitLedger ==
  /\ referralCredits = <<>>
  /\ customerToReferrals = <<>>
  /\ call = [c \in Calls |-> IdleCall]
  /\ unsynced = [r \in Referrals |-> 0]
  /\ window = [e \in Emails |-> EmptyWindow]
  /\ ops = 0
  /\ failures = 0
  /\ approval = IdleApproval
  /\ sub = [c \in Calls |-> IdleSub]
  /\ adjusted = [r \in Referrals |-> 0]
  /\ approvedMax = [r \in Referrals |-> 0]
  /\ last = NoCall

\* the ledger on its own: the webhook layer plays no part, no setting is set
Init ==
  /\ InitLedger
  /\ config = [ uppromoteWebhookSecret |-> FALSE, webhookSharedSecret |-> FALSE,
                subscriptionDiscountCode |-> FALSE ]

\* A call that has returned hands its result to the awaiting caller in the
\* same turn of the event loop: nothing else runs in between.
Quiet == \A c \in Calls : call[c].pc # "done"

(***************************************************************************)
(* storeReferralCredit (creditService.js:19-122).                          *)
(***************************************************************************)
\* customer_email, then customer.email, then email, then affiliate.email
extractEmailFromReferral(payload) ==
  LET email == IF payload.customer_email # "" THEN payload.customer_email
               ELSE IF payload.customer_object_email # ""
                 THEN payload.customer_object_email
               ELSE payload.email
  IN IF email # "" THEN email ELSE payload.affiliate_email

\* payload.commission || payload.commission_amount || "0"
CommissionRaw(payload) ==
  IF payload.commission # <<>> THEN payload.commission
  ELSE IF payload.commission_amount # <<>> THEN payload.commission_amount
  ELSE <<"0">>

Commission(payload) == ParseFloat(CommissionRaw(payload))

\* line 71: reading payload.id of null is a TypeError
StoreThrows(payload) == payload.isNull

\* a variant that only asks for an id
StoreAcceptsId(payload) == payload.id # 0

\* the two early returns of storeReferralCredit, negated; a TypeError leaves
\* the try before any write
StoreAccepts(payload) ==
  /\ ~StoreThrows(payload)
  /\ ~(payload.id = 0 \/ Commission(payload).nan)
  /\ extractEmailFromReferral(payload) # ""

NewRecord(payload) ==
  [ customerEmail |-> extractEmailFromReferral(payload),
    remainingCommission |-> Commission(payload).val ]

\* a variant that starts a new Set at every store
IndexAfterStoreFresh(index, payload) ==
  LET e == extractEmailFromReferral(payload)
  IN [x \in (DOMAIN index) \cup {e} |->
        IF x = e THEN <<payload.id>> ELSE index[x]]

\* customerToReferrals after lines 107-112
IndexAfterStore(index, payload) ==
  LET e == extractEmailFromReferral(payload)
      old == IF e \in DOMAIN index THEN index[e] ELSE <<>>
  IN [x \in (DOMAIN index) \cup {e} |->
        IF x = e THEN SetAdd(old, payload.id) ELSE index[x]]

\* a variant that adds the commission to the record it finds
CreditsAfterStoreSum(credits, payload) ==
  [x \in (DOMAIN credits) \cup {payload.id} |->
     IF x = payload.id
       THEN IF x \in DOMAIN credits
              THEN [NewRecord(payload) EXCEPT !.remainingCommission =
                      @ + credits[x].remainingCommission]
              ELSE NewRecord(payload)
       ELSE credits[x]]

\* a variant that loses the write of line 113
CreditsAfterStoreLost(credits, payload) == credits

\* referralCredits after line 113
CreditsAfterStore(credits, payload) ==
  [x \in (DOMAIN credits) \cup {payload.id} |->
     IF x = payload.id THEN NewRecord(payload) ELSE credits[x]]

\* a variant that goes on into the Set of another customer
IdsOfAll(index, e) ==
  IF e \notin DOMAIN index THEN <<>>
  ELSE index[e] \o (IF \E x \in DOMAIN index : x # e
                      THEN index[CHOOSE x \in DOMAIN index : x # e]
                      ELSE <<>>)

\* the referral ids of a customer, in insertion order (none: no entry)
IdsOf(index, e) == IF e \in DOMAIN index THEN index[e] ELSE <<>>

\* a consume call of customer e waits on the adapter
InFlight(e) == \E d \in Calls : call[d].pc = "await" /\ call[d].customerEmail = e

\* a call in flight is no longer alone on its customer's records once
\* another operation writes record r
Disturb(calls, index, r, except) ==
  [c \in Calls |->
     IF c # except /\ calls[c].pc = "await"
        /\ r \in Range(IdsOf(index, calls[c].customerEmail))
       THEN [calls[c] EXCEPT !.clean = FALSE]
       ELSE calls[c]]

\* the debit a call has in flight on record r predates the record once r is
\* stored again
Restore(calls, r) ==
  [c \in Calls |->
     IF calls[c].pc = "await" /\ calls[c].id = r
       THEN [calls[c] EXCEPT !.fresh = FALSE]
       ELSE calls[c]]

\* a variant without the try/catch of lines 68 and 119-121
StoreOutcomeUncaught(payload) ==
  IF StoreThrows(payload) THEN "raised"
  ELSE IF StoreAccepts(payload) THEN "stored" ELSE "rejected"

\* how a call of storeReferralCredit ends for its caller: it returns having
\* stored the record, having logged a rejection (lines 77-95), or having
\* caught and logged an error (lines 119-121)
StoreOutcome(payload) ==
  IF StoreThrows(payload) THEN "caught"
  ELSE IF StoreAccepts(payload) THEN "stored" ELSE "rejected"

storeReferralCredit(payload) ==
  IF StoreAccepts(payload)
    THEN /\ customerToReferrals' = IndexAfterStore(customerToReferrals, payload)
         /\ referralCredits' = CreditsAfterStore(referralCredits, payload)
         /\ unsynced' = [unsynced EXCEPT ![payload.id] = 0]
         /\ call' = Restore(Disturb(call, customerToReferrals', payload.id, 0),
                            payload.id)
         /\ window' = [e \in Emails |->
                         IF InFlight(e)
                            /\ payload.id \in Range(IdsOf(customerToReferrals', e))
                           THEN [window[e] EXCEPT !.dirty = TRUE]
                           ELSE window[e]]
    ELSE UNCHANGED <<referralCredits, customerToReferrals, call, unsynced, window>>

\* a call of storeReferralCredit
StoreCredit(payload) ==
  /\ Quiet
  /\ IF StoreAccepts(payload)
       THEN ops < MaxOps /\ ops' = ops + 1
       ELSE UNCHANGED ops
  /\ storeReferralCredit(payload)
  /\ UNCHANGED <<failures, webVars, last>>

(***************************************************************************)
(* getTotalCreditForCustomer (creditService.js:127-144).                   *)
(***************************************************************************)
\* lines 134-140 from position i of ids: records that exist and are positive
RECURSIVE SumCredit(_, _, _)
SumCredit(ids, i, credits) ==
  IF i > Len(ids) THEN 0
  ELSE (IF ids[i] \in DOMAIN credits /\ credits[ids[i]].remainingCommission > 0
          THEN credits[ids[i]].remainingCommission ELSE 0)
       + SumCredit(ids, i + 1, credits)

TotalCredit(index, credits, customerEmail) ==
  IF customerEmail \notin DOMAIN index \/ Len(index[customerEmail]) = 0
    THEN 0
    ELSE SumCredit(index[customerEmail], 1, credits)

getTotalCreditForCustomer(customerEmail) ==
  TotalCredit(customerToReferrals, referralCredits, customerEmail)

(***************************************************************************)
(* consumeCreditForCustomer (creditService.js:152-202).                    *)
(***************************************************************************)
\* line 166: the record is skipped
Skips(credits, id) ==
  id \notin DOMAIN credits \/ credits[id].remainingCommission <= 0

\* a variant that walks the Set from its newest id
RECURSIVE NextDebitNewest(_, _, _, _)
NextDebitNewest(ids, i, credits, remainingToUse) ==
  IF i > Len(ids) \/ remainingToUse <= 0 THEN 0
  ELSE LET later == NextDebitNewest(ids, i + 1, credits, remainingToUse)
       IN IF later # 0 THEN later
          ELSE IF ids[i] \notin DOMAIN credits
                  \/ credits[ids[i]].remainingCommission <= 0 THEN 0
          ELSE i

\* a variant without the break of line 163
RECURSIVE NextDebitNoBreak(_, _, _, _)
NextDebitNoBreak(ids, i, credits, remainingToUse) ==
  IF i > Len(ids) THEN 0
  ELSE IF Skips(credits, ids[i])
    THEN NextDebitNoBreak(ids, i + 1, credits, remainingToUse)
  ELSE i

\* a variant whose break of line 163 asks for less than 0
RECURSIVE NextDebitBelowZero(_, _, _, _)
NextDebitBelowZero(ids, i, credits, remainingToUse) ==
  IF i > Len(ids) \/ remainingToUse < 0 THEN 0
  ELSE IF Skips(credits, ids[i])
    THEN NextDebitBelowZero(ids, i + 1, credits, remainingToUse)
  ELSE i

\* lines 162-166: the position in ids, from i on, of the next referral the
\* loop debits; 0 when the loop ends first
RECURSIVE NextDebit(_, _, _, _)
NextDebit(ids, i, credits, remainingToUse) ==
  IF i > Len(ids) \/ remainingToUse <= 0 THEN 0
  ELSE IF Skips(credits, ids[i]) THEN NextDebit(ids, i + 1, credits, remainingToUse)
  ELSE i

\* a variant that takes what is still needed, whatever the record holds
UseNeeded(remainingCommission, remainingToUse) == remainingToUse

\* line 168
Use(remainingCommission, remainingToUse) == Min(remainingCommission, remainingToUse)

\* a variant that loses the write of line 171
DebitLost(remainingCommission, use) == remainingCommission

\* a variant that gives the amount back to the record
DebitAdded(remainingCommission, use) == remainingCommission + use

\* line 171
Debit(remainingCommission, use) == remainingCommission - use

\* line 189; before is history: the record's balance before line 171
PushBreakdown(breakdown, id, use, before) ==
  Append(breakdown, [referralId |-> id, used |-> use, before |-> before])

\* a variant that reports the amount asked for
UsedRequested(amountToUse, remainingToUse) == amountToUse

\* line 193
Used(amountToUse, remainingToUse) == amountToUse - remainingToUse

\* a variant that sends the amount used as it is
AdjustmentArgsPositive(id, use) == [referralId |-> id, adjustmentAmount |-> use]

\* line 176: the arguments of addReferralAdjustment
AdjustmentArgs(id, use) == [referralId |-> id, adjustmentAmount |-> 0 - use]

\* what a sync failure does to the call (lines 181-187: the catch logs)
OnSyncFailure(cr) == [cr EXCEPT !.failed = Append(@, cr.id)]

\* The loop from position from of the Set until the next await (line 176) or
\* the return (line 201); cr holds the locals of call c, win the windows and
\* uns the unsynced debits to go on from.
RunLoop(c, cr, from, win, uns) ==
  LET ids == IdsOf(customerToReferrals, cr.customerEmail)
      p == NextDebit(ids, from, referralCredits, cr.remainingToUse)
  IN IF p = 0
       THEN /\ call' = [call EXCEPT ![c] =
                 [cr EXCEPT !.pc = "done", !.pos = 0, !.id = 0, !.use = 0,
                            !.before = 0,
                            !.used = Used(cr.amountToUse, cr.remainingToUse),
                            !.outcome = "returned"]]
            /\ UNCHANGED referralCredits
            /\ unsynced' = uns
            /\ window' = win
       ELSE LET id == ids[p]
                use == Use(referralCredits[id].remainingCommission, cr.remainingToUse)
            IN /\ referralCredits' =
                    [referralCredits EXCEPT ![id].remainingCommission = Debit(@, use)]
               /\ call' = [Disturb(call, customerToReferrals, id, c) EXCEPT ![c] =
                    [cr EXCEPT !.pc = "await", !.pos = p, !.id = id, !.use = use,
                               !.fresh = TRUE,
                               !.before = referralCredits[id].remainingCommission,
                               !.sent = Append(@, AdjustmentArgs(id, use))]]
               /\ unsynced' = [uns EXCEPT ![id] = @ + use]
               /\ window' = [win EXCEPT ![cr.customerEmail].debit = @ + use]

\* the free call with the smallest number
Free(c) == call[c].pc = "idle" /\ sub[c].pc = "idle"

FreeCall(c) ==
  /\ Free(c)
  /\ \A d \in Calls : d < c => ~Free(d)

\* a variant that reports a credit of 1 as used
EmptyResultUsed == [used |-> 1, breakdown |-> <<>>]

\* line 156: the result for a customer with no referrals
EmptyResult == [used |-> 0, breakdown |-> <<>>]

\* lines 152-176: the call until its first await, or its return
consumeCreditForCustomer(c, customerEmail, amountToUse) ==
  /\ IF customerEmail \notin DOMAIN customerToReferrals
        \/ Len(IdsOf(customerToReferrals, customerEmail)) = 0
       THEN /\ call' = [call EXCEPT ![c] =
                 [IdleCall EXCEPT !.pc = "done", !.customerEmail = customerEmail,
                                  !.amountToUse = amountToUse,
                                  !.used = EmptyResult.used,
                                  !.breakdown = EmptyResult.breakdown,
                                  !.outcome = "returned"]]
            /\ UNCHANGED <<referralCredits, unsynced, window>>
       ELSE RunLoop(c,
                    [IdleCall EXCEPT !.customerEmail = customerEmail,
                                     !.amountToUse = amountToUse,
                                     !.remainingToUse = amountToUse,
                                     !.clean = ~InFlight(customerEmail)],
                    1,
                    IF InFlight(customerEmail) THEN window
                    ELSE [window EXCEPT ![customerEmail] =
                            [base |-> getTotalCreditForCustomer(customerEmail),
                             debit |-> 0, dirty |-> FALSE]],
                    unsynced)
  /\ UNCHANGED customerToReferrals

\* a consume call starts
ConsumeCall(c, customerEmail, amountToUse) ==
  /\ Quiet
  /\ FreeCall(c)
  /\ ops < MaxOps
  /\ ops' = ops + 1
  /\ consumeCreditForCustomer(c, customerEmail, amountToUse)
  /\ UNCHANGED <<failures, webVars, last>>

\* lines 189-190 after the await, then the loop
Resume(c, cr, uns) ==
  RunLoop(c,
          [cr EXCEPT
             !.breakdown = PushBreakdown(@, cr.id, cr.use, cr.before),
             !.remainingToUse = @ - cr.use],
          cr.pos + 1, window, uns)

\* a variant in which the POST is never answered
AdapterUnanswered(c) ==
  /\ FALSE
  /\ UNCHANGED <<referralCredits, customerToReferrals, call, unsynced, window>>

\* the adapter's POST succeeded: lines 177-180, then 189-190 and the loop
AdapterResolved(c) ==
  /\ call[c].pc = "await"
  /\ Resume(c, call[c],
            IF call[c].fresh
              THEN [unsynced EXCEPT ![call[c].id] = @ - call[c].use]
              ELSE unsynced)
  /\ UNCHANGED customerToReferrals

\* the adapter's POST failed or timed out (upPromoteClient.js:63-72 rethrows):
\* the catch of lines 181-187, then 189-190 and the loop
AdapterRejected(c) ==
  /\ call[c].pc = "await"
  /\ failures < MaxFailures
  /\ failures' = failures + 1
  /\ Resume(c, OnSyncFailure(call[c]), unsynced)
  /\ UNCHANGED customerToReferrals

\* the caller receives the result of the call (sealWebhooks.js:95-113)
ReturnResult(c) ==
  /\ call[c].pc = "done"
  /\ call' = [call EXCEPT ![c] = IdleCall]
  /\ window' = [e \in Emails |-> IF InFlight(e) THEN window[e] ELSE EmptyWindow]
  /\ UNCHANGED <<referralCredits, customerToReferrals, unsynced>>

AdapterSuccess(c) ==
  /\ Quiet
  /\ AdapterResolved(c)
  /\ UNCHANGED <<ops, failures, webVars, last>>

AdapterFailure(c) ==
  /\ Quiet
  /\ AdapterRejected(c)
  /\ UNCHANGED <<ops, webVars, last>>

Return(c) ==
  /\ ReturnResult(c)
  /\ UNCHANGED <<ops, failures, webVars, last>>

Next ==
  \/ \E payload \in Payloads : StoreCredit(payload)
  \/ \E c \in Calls, e \in Emails, amountToUse \in Amounts :
       ConsumeCall(c, e, amountToUse)
  \/ \E c \in Calls : AdapterSuccess(c)
  \/ \E c \in Calls : AdapterFailure(c)
  \/ \E c \in Calls : Return(c)

Spec == Init /\ [][Next]_vars

\* Every POST of the adapter is answered or runs into the timeout of the
\* axios client (upPromoteClient.js:14), and Node runs the continuation of
\* an await that has settled: a call that waits goes on, a call that has
\* returned hands over its result.
Fairness ==
  \A c \in Calls :
    /\ WF_vars(AdapterSuccess(c) \/ AdapterFailure(c))
    /\ WF_vars(Return(c))

SpecLive == Spec /\ Fairness

(***************************************************************************)
(* The ledger as its callers see it: every call of storeReferralCredit,    *)
(* getTotalCreditForCustomer and consumeCreditForCustomer is recorded in    *)
(* last with its arguments, its result and the Maps it found; a step that  *)
(* is not a call clears last.                                              *)
(***************************************************************************)
Called(op, payload, customerEmail, amountToUse, c, result) ==
  [ op |-> op, payload |-> payload, customerEmail |-> customerEmail,
    amountToUse |-> amountToUse, c |-> c, result |-> result,
    credits |-> referralCredits, index |-> customerToReferrals,
    calls |-> call ]

\* a variant of the call of getTotalCreditForCustomer that empties the records
\* it read
TotalCallClearing(customerEmail) ==
  /\ Quiet
  /\ ops < MaxOps
  /\ ops' = ops + 1
  /\ last' = Called("total", <<>>, customerEmail, 0, 0,
                    getTotalCreditForCustomer(customerEmail))
  /\ referralCredits' =
       [r \in DOMAIN referralCredits |->
          IF r \in Range(IdsOf(customerToReferrals, customerEmail))
            THEN [referralCredits[r] EXCEPT !.remainingCommission = 0]
            ELSE referralCredits[r]]
  /\ UNCHANGED <<customerToReferrals, call, unsynced, window, failures, webVars>>

\* a call of getTotalCreditForCustomer (lines 127-144): it returns a number
\* and writes nothing
TotalCall(customerEmail) ==
  /\ Quiet
  /\ ops < MaxOps
  /\ ops' = ops + 1
  /\ last' = Called("total", <<>>, customerEmail, 0, 0,
                    getTotalCreditForCustomer(customerEmail))
  /\ UNCHANGED <<referralCredits, customerToReferrals, call, unsynced, window,
                 failures, webVars>>

\* a call of storeReferralCredit (lines 67-122), accepted or not
StoreCall(payload) ==
  /\ Quiet
  /\ ops < MaxOps
  /\ ops' = ops + 1
  /\ last' = Called("store", payload, "", 0, 0, StoreOutcome(payload))
  /\ storeReferralCredit(payload)
  /\ UNCHANGED <<failures, webVars>>

\* a call of consumeCreditForCustomer, until its first await or its return
ConsumeStart(c, customerEmail, amountToUse) ==
  /\ Quiet
  /\ FreeCall(c)
  /\ ops < MaxOps
  /\ ops' = ops + 1
  /\ last' = Called("consume", <<>>, customerEmail, amountToUse, c, 0)
  /\ consumeCreditForCustomer(c, customerEmail, amountToUse)
  /\ UNCHANGED <<failures, webVars>>

SyncSucceeds(c) ==
  /\ Quiet
  /\ AdapterResolved(c)
  /\ last' = NoCall
  /\ UNCHANGED <<ops, failures, webVars>>

SyncFails(c) ==
  /\ Quiet
  /\ AdapterRejected(c)
  /\ last' = NoCall
  /\ UNCHANGED <<ops, webVars>>

ConsumeDone(c) ==
  /\ ReturnResult(c)
  /\ last' = NoCall
  /\ UNCHANGED <<ops, failures, webVars>>

NextCalls ==
  \/ \E payload \in Payloads : StoreCall(payload)
  \/ \E e \in Emails : TotalCall(e)
  \/ \E c \in Calls, e \in Emails, amountToUse \in Amounts :
       ConsumeStart(c, e, amountToUse)
  \/ \E c \in Calls : SyncSucceeds(c)
  \/ \E c \in Calls : SyncFails(c)
  \/ \E c \in Calls : ConsumeDone(c)

SpecCalls == Init /\ [][NextCalls]_vars

(***************************************************************************)
(* routes/uppromoteWebhooks.js: POST /referral-approved.                   *)
(***************************************************************************)
\* the X-UpPromote-Signature header: absent, the HMAC of the body under the
\* configured secret, or anything else
Signatures == {"none", "match", "mismatch"}

\* the body as the handler finds it in req.body: an empty Buffer, text that
\* is not JSON, the JSON of a payload, or, for a body of another content type
\* than application/json, which express.raw leaves unread (index.js:42), an
\* object that is not a Buffer and has no length
ApprovalRequests ==
  [signature : Signatures, body : {"empty", "text", "other"}, payload : {<<>>}]
  \cup
  [signature : {"match", "mismatch"}, body : {"json"}, payload : Payloads]

\* line 72
HasBody(req) == req.body \in {"text", "json"}

\* line 75
IsValidationPost(req) == req.signature = "none" /\ ~HasBody(req)

\* lines 33-36: createHmac().update() throws a TypeError on a body that is
\* not a Buffer
VerifyThrows(req) ==
  /\ config.uppromoteWebhookSecret
  /\ req.signature # "none"
  /\ req.body = "other"

verifySignature(req) ==
  IF ~config.uppromoteWebhookSecret THEN TRUE
  ELSE IF req.signature = "none" THEN FALSE
  ELSE req.signature = "match"

\* lines 109-113
HandlerEmail(payload) ==
  IF payload.affiliate_email # "" THEN payload.affiliate_email
  ELSE IF payload.customer_email # "" THEN payload.customer_email
  ELSE IF payload.customer_object_email # "" THEN payload.customer_object_email
  ELSE payload.email

\* line 140: parseFloat(payload.commission || 0)
HandlerCommission(payload) ==
  IF payload.commission # <<>> THEN ParseFloat(payload.commission)
  ELSE [nan |-> FALSE, val |-> 0]

Respond(status) == [IdleApproval EXCEPT !.pc = "responded", !.status = status]

\* a response that follows a failure: the signature check, JSON.parse, a
\* payload with no field to read, the Seal call, a discount that was not
\* applied, the adjustment
RespondAfter(failed, status) == [Respond(status) EXCEPT !.failed = failed]

ApprovedMaxAfter(payload) ==
  IF StoreAccepts(payload) /\ Commission(payload).val > approvedMax[payload.id]
    THEN [approvedMax EXCEPT ![payload.id] = Commission(payload).val]
    ELSE approvedMax

\* no handler is about to run on: none has a consume call that returned to
\* it, none has a response on its way out
Settled ==
  /\ Quiet
  /\ approval.pc # "responded"
  /\ \A c \in Calls : sub[c].pc # "responded"

\* lines 69-143: a delivery, until the response or the await of the Seal call;
\* a payload of null is left alone by storeReferralCredit and makes line 110
\* throw; the catch of lines 235-239 answers that, and an error thrown by
\* verifySignature, with 200
ReferralApprovedPost(req) ==
  /\ UNCHANGED last
  /\ Settled
  /\ approval.pc = "idle"
  /\ ops < MaxDeliveries
  /\ ops' = ops + 1
  /\ UNCHANGED <<failures, config, sub, adjusted>>
  /\ IF IsValidationPost(req) THEN
       /\ approval' = Respond(200)
       /\ UNCHANGED <<referralCredits, customerToReferrals, call, unsynced,
                      window, approvedMax>>
     ELSE IF VerifyThrows(req) THEN
       /\ approval' = RespondAfter("verify", 200)
       /\ UNCHANGED <<referralCredits, customerToReferrals, call, unsynced,
                      window, approvedMax>>
     ELSE IF ~verifySignature(req) THEN
       /\ approval' = RespondAfter("signature", 401)
       /\ UNCHANGED <<referralCredits, customerToReferrals, call, unsynced,
                      window, approvedMax>>
     ELSE IF req.body # "json" THEN
       /\ approval' = RespondAfter("json", 200)
       /\ UNCHANGED <<referralCredits, customerToReferrals, call, unsynced,
                      window, approvedMax>>
     ELSE
       /\ storeReferralCredit(req.payload)
       /\ approvedMax' = ApprovedMaxAfter(req.payload)
       /\ approval' =
            IF req.payload.isNull
              THEN RespondAfter("payload", 200)
            ELSE IF HandlerEmail(req.payload) # ""
              THEN [ IdleApproval EXCEPT
                       !.pc = "seal", !.referralId = req.payload.id,
                       !.commissionAmount = HandlerCommission(req.payload) ]
              ELSE Respond(200)

\* what getSubscriptionsAndApplyDiscount gives back (sealClient.js:168-316):
\* it throws, or returns the discounts applied and the subscriptions that
\* failed; success is errors.length === 0
SealResults ==
  [threw : {TRUE}, applied : {0}, errors : {0}]
  \cup [threw : {FALSE}, applied : 0..1, errors : 0..1]

\* upPromoteClient.js:26-73: whether addReferralAdjustment reaches the POST
\* (lines 29-43 return early otherwise)
AdjustmentPosts(referralId, adjustmentAmount) ==
  referralId # 0 /\ adjustmentAmount # 0

\* lines 143-181 and 203-206, 234
SealReturns(result) ==
  /\ UNCHANGED last
  /\ Settled
  /\ approval.pc = "seal"
  /\ LET commissionAmount == approval.commissionAmount
         appliedCount == result.applied
         success == result.errors = 0
         adjusts ==
           /\ ~result.threw
           /\ success /\ appliedCount > 0
           /\ ~commissionAmount.nan /\ commissionAmount.val > 0
           /\ AdjustmentPosts(approval.referralId, 0 - commissionAmount.val)
     IN approval' =
          IF result.threw THEN RespondAfter("seal", 200)
          ELSE IF adjusts THEN [approval EXCEPT !.pc = "adjust"]
          ELSE IF success THEN Respond(200)
          ELSE RespondAfter("discount", 200)
  /\ UNCHANGED <<referralCredits, customerToReferrals, call, unsynced, window,
                 ops, failures, config, sub, adjusted, approvedMax>>

\* line 181 resolved: the platform took the adjustment of -commissionAmount
AdjustmentApplied ==
  /\ UNCHANGED last
  /\ Settled
  /\ approval.pc = "adjust"
  /\ adjusted' = [adjusted EXCEPT ![approval.referralId] =
                    @ + approval.commissionAmount.val]
  /\ approval' = Respond(200)
  /\ UNCHANGED <<referralCredits, customerToReferrals, call, unsynced, window,
                 ops, failures, config, sub, approvedMax>>

\* a variant without the catch of lines 192-201 and with an outer catch that
\* answers 500
AdjustmentFailedRaises ==
  /\ UNCHANGED last
  /\ Settled
  /\ approval.pc = "adjust"
  /\ approval' = RespondAfter("adjustment", 500)
  /\ UNCHANGED <<referralCredits, customerToReferrals, call, unsynced, window,
                 ops, failures, config, sub, adjusted, approvedMax>>

\* line 181 rejected: lines 192-201, then 234
AdjustmentFailed ==
  /\ UNCHANGED last
  /\ Settled
  /\ approval.pc = "adjust"
  /\ approval' = RespondAfter("adjustment", 200)
  /\ UNCHANGED <<referralCredits, customerToReferrals, call, unsynced, window,
                 ops, failures, config, sub, adjusted, approvedMax>>

(***************************************************************************)
(* routes/sealWebhooks.js: POST /subscription.                             *)
(***************************************************************************)
\* total_value as the body carries it: missing, text, or a number
TotalValues == { <<>>, <<"x">>, <<"1">>, <<"3">> }

\* id 0 and email "" stand for a missing field
SubscriptionRequests ==
  [ token : {"match", "mismatch"}, id : {0, 7}, email : {""} \cup Emails,
    total_value : TotalValues ]

verifyQueryToken(req) ==
  IF ~config.webhookSharedSecret THEN TRUE ELSE req.token = "match"

\* Number(subscription.total_value || 0): the whole text has to be a number
ToNumber(s) ==
  LET signed == Len(s) >= 1 /\ s[1] \in {"-", "+"}
      first == IF signed THEN 2 ELSE 1
      d == ParseDigits(s, first, 0, 0)
  IN IF s = <<>> THEN [nan |-> FALSE, val |-> 0]
     ELSE IF d.n = 0 \/ first + d.n <= Len(s) THEN [nan |-> TRUE, val |-> 0]
     ELSE [nan |-> FALSE, val |-> IF s[1] = "-" THEN 0 - d.val ELSE d.val]

Answer(status) == [IdleSub EXCEPT !.pc = "responded", !.status = status]

\* a variant that goes on with a credit of 0
NoCreditNegative(availableCredit) == availableCredit < 0

\* line 72
NoCredit(availableCredit) == availableCredit <= 0

\* lines 29-91: a delivery, until the response or the first await that waits.
\* applyDiscountCode returns at once when no discount code is configured
\* (sealClient.js:330-335), and the handler goes on into
\* consumeCreditForCustomer before any other request is served.
SubscriptionPost(c, req) ==
  /\ UNCHANGED last
  /\ Settled
  /\ FreeCall(c)
  /\ ops < MaxDeliveries
  /\ ops' = ops + 1
  /\ UNCHANGED <<failures, config, approval, adjusted, approvedMax>>
  /\ LET totalValue == ToNumber(req.total_value)
         availableCredit ==
           TotalCredit(customerToReferrals, referralCredits, req.email)
         amountToUse == Min(availableCredit, totalValue.val)
         running == [ pc |-> "consume", customerEmail |-> req.email,
                      amountToUse |-> amountToUse,
                      availableCredit |-> availableCredit,
                      status |-> 0, message |-> "", discount |-> "skipped" ]
     IN IF ~verifyQueryToken(req) THEN
          /\ sub' = [sub EXCEPT ![c] = Answer(401)]
          /\ UNCHANGED <<referralCredits, customerToReferrals, call, unsynced,
                         window>>
        ELSE IF req.id = 0 \/ req.email = "" \/ totalValue.nan THEN
          /\ sub' = [sub EXCEPT ![c] = Answer(200)]
          /\ UNCHANGED <<referralCredits, customerToReferrals, call, unsynced,
                         window>>
        ELSE IF NoCredit(availableCredit) THEN
          /\ sub' = [sub EXCEPT ![c] =
                      [Answer(200) EXCEPT !.customerEmail = req.email,
                                          !.availableCredit = availableCredit,
                                          !.message = "no-credit"]]
          /\ UNCHANGED <<referralCredits, customerToReferrals, call, unsynced,
                         window>>
        ELSE IF config.subscriptionDiscountCode THEN
          /\ sub' = [sub EXCEPT ![c] = [running EXCEPT !.pc = "discount",
                                                       !.discount = "sent"]]
          /\ UNCHANGED <<referralCredits, customerToReferrals, call, unsynced,
                         window>>
        ELSE
          /\ sub' = [sub EXCEPT ![c] = running]
          /\ consumeCreditForCustomer(c, req.email, amountToUse)

\* line 91 resolved, then line 95 until the first await of the consume call
DiscountApplied(c) ==
  /\ UNCHANGED last
  /\ Settled
  /\ sub[c].pc = "discount"
  /\ sub' = [sub EXCEPT ![c].pc = "consume", ![c].discount = "applied"]
  /\ consumeCreditForCustomer(c, sub[c].customerEmail, sub[c].amountToUse)
  /\ UNCHANGED <<ops, failures, config, approval, adjusted, approvedMax>>

\* a variant that goes on to line 95 although line 91 was rejected
DiscountFailedConsumes(c) ==
  /\ UNCHANGED last
  /\ Settled
  /\ sub[c].pc = "discount"
  /\ sub' = [sub EXCEPT ![c].pc = "consume", ![c].discount = "failed"]
  /\ consumeCreditForCustomer(c, sub[c].customerEmail, sub[c].amountToUse)
  /\ UNCHANGED <<ops, failures, config, approval, adjusted, approvedMax>>

\* line 91 rejected (sealClient.js:357-367 rethrows): lines 114-124
DiscountFailed(c) ==
  /\ UNCHANGED last
  /\ Settled
  /\ sub[c].pc = "discount"
  /\ sub' = [sub EXCEPT ![c] =
              [Answer(500) EXCEPT !.customerEmail = sub[c].customerEmail,
                                  !.availableCredit = sub[c].availableCredit,
                                  !.discount = "failed"]]
  /\ UNCHANGED <<referralCredits, customerToReferrals, call, unsynced, window,
                 ops, failures, config, approval, adjusted, approvedMax>>

\* the adapter's POST of a consume call succeeded: the platform took the
\* adjustment of -use
SyncApplied(c) ==
  /\ UNCHANGED last
  /\ Settled
  /\ sub[c].pc = "consume"
  /\ AdapterResolved(c)
  /\ adjusted' = [adjusted EXCEPT ![call[c].id] = @ + call[c].use]
  /\ UNCHANGED <<ops, failures, config, approval, sub, approvedMax>>

SyncFailed(c) ==
  /\ UNCHANGED last
  /\ Settled
  /\ sub[c].pc = "consume"
  /\ AdapterRejected(c)
  /\ UNCHANGED <<ops, config, approval, sub, adjusted, approvedMax>>

\* lines 95-113: the consume call returned, the handler answers
ConsumeReturns(c) ==
  /\ UNCHANGED last
  /\ sub[c].pc = "consume"
  /\ ReturnResult(c)
  /\ sub' = [sub EXCEPT ![c] = Answer(200)]
  /\ UNCHANGED <<ops, failures, config, approval, adjusted, approvedMax>>

\* the response of a handler is out
ApprovalResponded ==
  /\ UNCHANGED last
  /\ approval.pc = "responded"
  /\ approval' = IdleApproval
  /\ UNCHANGED <<referralCredits, customerToReferrals, call, unsynced, window,
                 ops, failures, config, sub, adjusted, approvedMax>>

SubscriptionResponded(c) ==
  /\ UNCHANGED last
  /\ sub[c].pc = "responded"
  /\ sub' = [sub EXCEPT ![c] = IdleSub]
  /\ UNCHANGED <<referralCredits, customerToReferrals, call, unsynced, window,
                 ops, failures, config, approval, adjusted, approvedMax>>

(***************************************************************************)
(* The two webhooks over the ledger (index.js mounts both routers).        *)
(***************************************************************************)
InitWeb ==
  /\ InitLedger
  /\ config \in Configs

NextWeb ==
  \/ \E req \in ApprovalRequests : ReferralApprovedPost(req)
  \/ \E result \in SealResults : SealReturns(result)
  \/ AdjustmentApplied
  \/ AdjustmentFailed
  \/ \E c \in Calls, req \in SubscriptionRequests : SubscriptionPost(c, req)
  \/ \E c \in Calls : DiscountApplied(c)
  \/ \E c \in Calls : DiscountFailed(c)
  \/ \E c \in Calls : SyncApplied(c)
  \/ \E c \in Calls : SyncFailed(c)
  \/ \E c \in Calls : ConsumeReturns(c)
  \/ ApprovalResponded
  \/ \E c \in Calls : SubscriptionResponded(c)

SpecWeb == InitWeb /\ [][NextWeb]_vars

(***************************************************************************)
(* Properties of the ledger.                                               *)
(***************************************************************************)
RECURSIVE SumUsed(_, _)
SumUsed(breakdown, i) ==
  IF i > Len(breakdown) THEN 0
  ELSE breakdown[i].used + SumUsed(breakdown, i + 1)

PosOf(ids, id) == CHOOSE i \in 1..Len(ids) : ids[i] = id

Balance(r) == referralCredits[r].remainingCommission

\* the positions of a breakdown that stand before its first failed referral
SyncedBefore(cr) ==
  { i \in 1..Len(cr.breakdown) :
      \A j \in 1..i : cr.breakdown[j].referralId # cr.failed[1] }

\* C1: every record's remainingCommission is >= 0, after any sequence and
\* interleaving of storeCredit and consume calls, whatever the adapter does.
NoNegativeBalance ==
  \A r \in DOMAIN referralCredits : Balance(r) >= 0

\* C2: when the adapter failed on a referral of a consume call that ran alone
\* on its customer, the referral holds after the call the balance it had
\* before it, and the referrals synced before it keep their debited balance.
RollbackExactness ==
  \A c \in Calls :
    (call[c].pc = "done" /\ call[c].clean /\ call[c].failed # <<>>) =>
      \A i \in 1..Len(call[c].breakdown) :
        LET b == call[c].breakdown[i]
        IN /\ (b.referralId = call[c].failed[1]) => Balance(b.referralId) = b.before
           /\ (i \in SyncedBefore(call[c])) =>
                 Balance(b.referralId) = b.before - b.used

\* C3: a consume call in which an adapter invocation failed ends as a failure,
\* not as a normal {used, breakdown} result.
SyncFailurePropagates ==
  \A c \in Calls :
    (call[c].pc = "done" /\ call[c].failed # <<>>) => call[c].outcome = "threw"

\* C4: once the adapter has failed for a referral of a consume call, the call
\* is over: it waits on no further adapter invocation, and the failed
\* referral is not in its breakdown.
SyncFailureAborts ==
  \A c \in Calls :
    (call[c].failed # <<>>) =>
      /\ call[c].pc = "done"
      /\ \A i \in 1..Len(call[c].breakdown) :
           call[c].breakdown[i].referralId # call[c].failed[1]

\* what call c has debited so far: its breakdown and the debit in flight
DebitedBy(c) == SumUsed(call[c].breakdown, 1) + call[c].use

\* C5: the consume calls of one customer that overlap never debit together
\* more than the customer's total credit when the first of them started
\* (no record of the customer being stored meanwhile).
ConcurrentConsumeSafety ==
  \A e \in Emails :
    (~window[e].dirty /\ \E c \in Calls : call[c].pc # "idle" /\ call[c].customerEmail = e) =>
      /\ window[e].debit <= window[e].base
      /\ \A c, d \in Calls :
           (c # d /\ call[c].pc # "idle" /\ call[d].pc # "idle"
              /\ call[c].customerEmail = e /\ call[d].customerEmail = e) =>
             DebitedBy(c) + DebitedBy(d) <= window[e].base

\* two calls of one customer wait on the adapter at the same time, they asked
\* together for more than the customer had, and all of it is debited
ConcurrentConsumeWitness ==
  \E c, d \in Calls :
    /\ c # d /\ call[c].pc = "await" /\ call[d].pc = "await"
    /\ call[c].customerEmail = call[d].customerEmail
    /\ LET w == window[call[c].customerEmail]
       IN /\ ~w.dirty /\ w.base > 0
          /\ call[c].amountToUse + call[d].amountToUse > w.base
          /\ DebitedBy(c) + DebitedBy(d) = w.base

\* C6: at most one consume call of a customer is between its start and its
\* return at any time.
MutualExclusion ==
  \A c, d \in Calls :
    (c # d /\ call[c].pc = "await" /\ call[d].pc = "await") =>
      call[c].customerEmail # call[d].customerEmail

\* C8: whenever no consume call is in flight, what consume debited from a
\* referral since its last store is what the platform applied for it.
LedgerRemoteInSync ==
  (\A c \in Calls : call[c].pc # "await") =>
    \A r \in Referrals : unsynced[r] = 0

\* C9: a consume call that returns {used, breakdown} with no adapter failure
\* has used = the sum of the used of its breakdown; when it ran alone on its
\* customer, the customer's total credit went down by exactly used and each
\* referral of the breakdown by exactly its used.
ConservationUnderSuccess ==
  \A c \in Calls :
    (call[c].pc = "done" /\ call[c].failed = <<>>) =>
      /\ call[c].used = SumUsed(call[c].breakdown, 1)
      /\ call[c].clean =>
           /\ getTotalCreditForCustomer(call[c].customerEmail)
                = window[call[c].customerEmail].base - call[c].used
           /\ \A i \in 1..Len(call[c].breakdown) :
                LET b == call[c].breakdown[i]
                IN Balance(b.referralId) = b.before - b.used

\* a call that ran alone returned with two referrals debited and less used
\* than it asked for
ConservationWitness ==
  \E c \in Calls :
    /\ call[c].pc = "done" /\ call[c].failed = <<>> /\ call[c].clean
    /\ Len(call[c].breakdown) = 2
    /\ call[c].used = 2 /\ call[c].amountToUse = 3

NoCommissionGivenTwice ==
  \A r \in Referrals : adjusted[r] <= approvedMax[r]

(***************************************************************************)
(* Properties of the calls of the ledger.                                  *)
(***************************************************************************)
LedgerAsFound ==
  referralCredits = last.credits /\ customerToReferrals = last.index

NoEmail(payload) ==
  /\ payload.customer_email = "" /\ payload.customer_object_email = ""
  /\ payload.email = "" /\ payload.affiliate_email = ""

\* the customer has no entry in the index, or an empty Set
Unknown(index, customerEmail) ==
  customerEmail \notin DOMAIN index \/ index[customerEmail] = <<>>

\* C11: a storeCredit that succeeds for a referral that has a record leaves
\* one record under that id, the Map holding no more ids than the one stored,
\* and its remainingCommission is the amount of this call, not the sum with
\* what the record held.
LastWriteWins ==
  (last.op = "store" /\ StoreAccepts(last.payload)
     /\ last.payload.id \in DOMAIN last.credits) =>
    /\ DOMAIN referralCredits = DOMAIN last.credits
    /\ Balance(last.payload.id) = Commission(last.payload).val

\* two calls were made, both stored referral 1: the first 1, the second 2
LastWriteWinsWitness ==
  /\ ops = 2
  /\ last.op = "store" /\ StoreAccepts(last.payload)
  /\ 1 \in DOMAIN last.credits /\ last.payload.id = 1
  /\ last.credits[1].remainingCommission = 1
  /\ Commission(last.payload).val = 2
  /\ Balance(1) = 2

\* C12: for a customer with no index entry (or an empty Set) totalCreditFor
\* returns 0, and consume returns {used: 0, breakdown: []} at once, having
\* invoked no adapter; neither changes the Store, the Index or another call.
UnknownCustomer ==
  /\ (last.op = "total" /\ Unknown(last.index, last.customerEmail)) =>
       last.result = 0 /\ LedgerAsFound /\ call = last.calls
  /\ (last.op = "consume" /\ Unknown(last.index, last.customerEmail)) =>
       /\ call[last.c].pc = "done" /\ call[last.c].outcome = "returned"
       /\ call[last.c].used = 0 /\ call[last.c].breakdown = <<>>
       /\ call[last.c].sent = <<>>
       /\ LedgerAsFound
       /\ \A d \in Calls : d # last.c => call[d] = last.calls[d]

\* consume of 3 for a customer nobody stored, while another customer has
\* credit and a consume call in flight
UnknownCustomerWitness ==
  /\ last.op = "consume" /\ Unknown(last.index, last.customerEmail)
  /\ last.amountToUse = 3
  /\ call[last.c].pc = "done"
  /\ \E d \in Calls : d # last.c /\ call[d].pc = "await"
  /\ \E r \in DOMAIN referralCredits : Balance(r) > 0

\* C13: a storeCredit whose commission does not parse as a number, or whose
\* payload carries no email at all, leaves the Store and the Index as it
\* found them.
RejectedStoreNoEffect ==
  (last.op = "store"
     /\ (ParseFloat(CommissionRaw(last.payload)).nan \/ NoEmail(last.payload))) =>
    LedgerAsFound

\* a commission that is text is refused for a referral that holds credit,
\* and the record is not overwritten
RejectedStoreWitness ==
  /\ last.op = "store"
  /\ ParseFloat(CommissionRaw(last.payload)).nan
  /\ last.payload.id \in DOMAIN referralCredits
  /\ Balance(last.payload.id) > 0

\* C14: a storeCredit whose commission is negative is rejected: it stores no
\* record and leaves the Store and the Index as it found them.
NegativeCommissionRejected ==
  (last.op = "store" /\ ~ParseFloat(CommissionRaw(last.payload)).nan
     /\ ParseFloat(CommissionRaw(last.payload)).val < 0) =>
    LedgerAsFound

\* C15: a referral-approved event only stores the credit: its handler waits
\* on no external call, neither the subscription service nor an adjustment
\* sent to the referral platform.
ApprovalOnlyStores ==
  approval.pc \notin {"seal", "adjust"}

\* C16: every referralId in a customer's Set has a record in the Store.
NoDanglingIndex ==
  \A e \in DOMAIN customerToReferrals :
    \A r \in Range(customerToReferrals[e]) : r \in DOMAIN referralCredits

\* a customer has two referrals, one of them is also in the Set of the other
\* customer, and a consume call is in flight
NoDanglingIndexWitness ==
  /\ \E e \in DOMAIN customerToReferrals : Len(customerToReferrals[e]) = 2
  /\ \E r \in DOMAIN referralCredits :
       \A e \in Emails : r \in Range(IdsOf(customerToReferrals, e))
  /\ \E c \in Calls : call[c].pc = "await"

\* the sum of remainingCommission over the records of ids, from position i,
\* an id with no record counting for nothing
RECURSIVE SumRemaining(_, _, _)
SumRemaining(ids, i, credits) ==
  IF i > Len(ids) THEN 0
  ELSE (IF ids[i] \in DOMAIN credits
          THEN credits[ids[i]].remainingCommission ELSE 0)
       + SumRemaining(ids, i + 1, credits)

\* C17: totalCreditFor returns the sum of remainingCommission over every
\* record reachable from the customer's Set, in every reachable ledger.
TotalIsSum ==
  (last.op = "total") =>
    last.result =
      SumRemaining(IdsOf(last.index, last.customerEmail), 1, last.credits)

\* C18: totalCreditFor, for a known or unknown customer, leaves the Store and
\* the Index as it found them and invokes no adapter: every consume call is
\* where it was, with the invocations it had made.
TotalIsPureRead ==
  (last.op = "total") => LedgerAsFound /\ call = last.calls

\* the total of a customer with credit left is read while a consume call of
\* that customer waits on the adapter
TotalIsPureReadWitness ==
  /\ last.op = "total" /\ last.result > 0
  /\ \E c \in Calls :
       call[c].pc = "await" /\ call[c].customerEmail = last.customerEmail

\* C19: a consume call invokes the adapter once per referral it decrements,
\* with (referralId, -use), use > 0 being what it took from that referral: its
\* invocations are those of its breakdown, in order, and the one in flight; no
\* referral comes twice; none had a balance <= 0 when the call reached it; a
\* call alone on its customer's records has the record in flight down by use.
AdapterOncePerDebit ==
  \A c \in Calls :
    LET cr == call[c]
        inFlight == IF cr.pc = "await" THEN 1 ELSE 0
    IN /\ Len(cr.sent) = Len(cr.breakdown) + inFlight
       /\ \A i \in 1..Len(cr.breakdown) :
            /\ cr.sent[i] = [ referralId |-> cr.breakdown[i].referralId,
                              adjustmentAmount |-> 0 - cr.breakdown[i].used ]
            /\ cr.breakdown[i].used > 0
            /\ cr.breakdown[i].before >= cr.breakdown[i].used
       /\ \A i, j \in 1..Len(cr.sent) :
            i # j => cr.sent[i].referralId # cr.sent[j].referralId
       /\ (cr.pc = "await") =>
            /\ cr.sent[Len(cr.sent)] =
                 [referralId |-> cr.id, adjustmentAmount |-> 0 - cr.use]
            /\ cr.use > 0 /\ cr.before >= cr.use
            /\ cr.clean => Balance(cr.id) = cr.before - cr.use

\* a call went past the first referral of its customer, which holds nothing,
\* and invoked the adapter for the second one only
AdapterOncePerDebitWitness ==
  \E c \in Calls :
    LET cr == call[c]
        ids == IdsOf(customerToReferrals, cr.customerEmail)
    IN /\ cr.pc = "done" /\ cr.clean /\ Len(ids) = 2
       /\ Balance(ids[1]) <= 0
       /\ Len(cr.sent) = 1 /\ cr.sent[1].referralId = ids[2]
       /\ cr.sent[1].adjustmentAmount < 0
       /\ cr.breakdown[1].before = 2 /\ cr.breakdown[1].used = 1

\* C20: while an adapter invocation for referral r with -use is in flight,
\* the remainingCommission of r excludes use: it is no more than what line
\* 171 found in the record, less use.
SpeculativeDecrement ==
  \A c \in Calls :
    (call[c].pc = "await") =>
      Balance(call[c].id) <= call[c].before - call[c].use

\* C21: no storeCredit for referral r takes effect between a consume call's
\* decrement of r and the completion of that call's adapter invocation for r.
StoreSerialized ==
  \A c \in Calls : (call[c].pc = "await") => call[c].fresh

\* C22: an uninterrupted consume(customer, X), X > 0, in which every sync
\* succeeded has used = min(X, the customer's total credit when it started),
\* and each referral gave min(its remainingCommission, the amount still
\* needed).
UsedIsMin ==
  \A c \in Calls :
    LET cr == call[c]
    IN (cr.pc = "done" /\ cr.clean /\ cr.failed = <<>> /\ cr.amountToUse > 0) =>
         /\ cr.used = Min(cr.amountToUse, window[cr.customerEmail].base)
         /\ \A i \in 1..Len(cr.breakdown) :
              cr.breakdown[i].used =
                Min(cr.breakdown[i].before,
                    cr.amountToUse - SumUsed(SubSeq(cr.breakdown, 1, i - 1), 1))

\* 3 asked of a customer who had 2 in two referrals: 2 used, both drained
UsedIsMinWitness ==
  /\ \E c \in Calls :
       LET cr == call[c]
       IN /\ cr.pc = "done" /\ cr.clean /\ cr.failed = <<>>
          /\ cr.amountToUse = 3 /\ window[cr.customerEmail].base = 2
          /\ cr.used = 2 /\ Len(cr.breakdown) = 2
  /\ \E r \in DOMAIN referralCredits : Balance(r) = 0

\* C23: a consume call debits a referral, and invokes the adapter, only while
\* the amount still needed is above 0; it never debits more than was asked.
StopEarly ==
  \A c \in Calls :
    LET cr == call[c]
    IN /\ (cr.pc = "await") =>
            cr.remainingToUse > 0 /\ cr.use <= cr.remainingToUse
       /\ (cr.pc = "done" /\ cr.amountToUse > 0) =>
            cr.remainingToUse >= 0 /\ SumUsed(cr.breakdown, 1) <= cr.amountToUse

\* the call got all it asked for from the first referral and returned, the
\* second referral of the customer keeps its credit and was not invoked for
StopEarlyWitness ==
  \E c \in Calls :
    LET cr == call[c]
        ids == IdsOf(customerToReferrals, cr.customerEmail)
    IN /\ cr.pc = "done" /\ cr.clean /\ cr.amountToUse > 0
       /\ cr.remainingToUse = 0
       /\ Len(ids) = 2 /\ Len(cr.sent) = 1
       /\ cr.sent[1].referralId = ids[1]
       /\ Balance(ids[2]) > 0

\* the step is an accepted storeCredit for referral r, which leaves in the
\* record the amount of the call
StoreStep(r) ==
  /\ last'.op = "store" /\ StoreAccepts(last'.payload)
  /\ last'.payload.id = r
  /\ referralCredits'[r].remainingCommission = Commission(last'.payload).val

\* the step is the decrement of referral r by a consume call, which goes on
\* to wait on the adapter for it
DebitStep(r) ==
  \E c \in Calls :
    /\ call'[c].pc = "await" /\ call'[c].id = r
    /\ call'[c].sent # call[c].sent
    /\ call'[c].use > 0
    /\ call'[c].before = referralCredits[r].remainingCommission
    /\ referralCredits'[r].remainingCommission = call'[c].before - call'[c].use

\* C24: remainingCommission changes only through storeCredit, which sets it
\* to the approved amount, and through consume, which decreases it; so between
\* two storeCredit calls for a referral it never exceeds what the most recent
\* one set.
BalanceSetOrDebited ==
  [][ \A r \in DOMAIN referralCredits' :
        IF r \notin DOMAIN referralCredits THEN StoreStep(r)
        ELSE (referralCredits'[r].remainingCommission
                # referralCredits[r].remainingCommission) =>
               (StoreStep(r) \/ DebitStep(r)) ]_vars

\* a referral stored with 2 was debited by 1, the sync failed, and it holds 1
BalanceSetOrDebitedWitness ==
  \E c \in Calls :
    /\ call[c].pc = "done" /\ call[c].clean
    /\ Len(call[c].failed) = 1 /\ Len(call[c].breakdown) = 1
    /\ call[c].breakdown[1].before = 2 /\ call[c].breakdown[1].used = 1
    /\ Balance(call[c].breakdown[1].referralId) = 1

\* C25: a record that exists for a referralId exists in every later state,
\* and a referralId in a customer's Set stays in that Set, whatever
\* storeCredit, totalCreditFor and consume calls are made.
EntriesNeverDeleted ==
  [][ /\ DOMAIN referralCredits \subseteq DOMAIN referralCredits'
      /\ \A e \in DOMAIN customerToReferrals :
           /\ e \in DOMAIN customerToReferrals'
           /\ Range(customerToReferrals[e])
                \subseteq Range(customerToReferrals'[e]) ]_vars

\* the two referrals of a customer were drained by a consume call that has
\* returned; their records and index entries are still there
EntriesNeverDeletedWitness ==
  /\ \A c \in Calls : call[c].pc = "idle"
  /\ last = NoCall
  /\ \E e \in DOMAIN customerToReferrals :
       /\ Len(customerToReferrals[e]) = 2
       /\ \A r \in Range(customerToReferrals[e]) :
            r \in DOMAIN referralCredits /\ Balance(r) = 0
  /\ ops >= 3

\* C26: storeCredit returns normally for every input: it has stored the
\* credit, or it has reported a rejection or an error in the log and left the
\* ledger as it found it; it never raises to its caller.
StoreNeverRaises ==
  (last.op = "store") =>
    /\ last.result \in {"stored", "rejected", "caught"}
    /\ IF last.result = "stored"
         THEN /\ last.payload.id \in DOMAIN referralCredits
              /\ Balance(last.payload.id) = Commission(last.payload).val
         ELSE LedgerAsFound

\* the body null made the call throw inside, on a ledger that holds credit
StoreNeverRaisesWitness ==
  /\ last.op = "store" /\ last.payload.isNull
  /\ last.result = "caught"
  /\ \E r \in DOMAIN referralCredits : Balance(r) > 0

\* C27: a consume call that waits on the adapter eventually returns, every
\* adapter invocation being answered or timing out.
ConsumeTerminates ==
  \A c \in Calls : (call[c].pc = "await") ~> (call[c].pc = "done")

\* a call has returned after two adapter invocations, one of which failed or
\* timed out
ConsumeTerminatesWitness ==
  \E c \in Calls :
    /\ call[c].pc = "done" /\ call[c].outcome = "returned"
    /\ Len(call[c].sent) = 2 /\ Len(call[c].failed) = 1

(***************************************************************************)
(* Properties of the subscription handler.                                 *)
(***************************************************************************)
LedgerUntouched ==
  UNCHANGED <<referralCredits, customerToReferrals, call, unsynced, adjusted>>

NoCreditNoDebit ==
  [][ \A c \in Calls :
        LET total == TotalCredit(customerToReferrals, referralCredits,
                                 sub'[c].customerEmail)
        IN /\ (sub[c].pc = "idle" /\ sub'[c].message = "no-credit") =>
                /\ total <= 0
                /\ sub'[c].pc = "responded" /\ sub'[c].status = 200
                /\ sub'[c].discount = "none"
                /\ LedgerUntouched
           /\ (sub[c].pc = "idle" /\ sub'[c].pc \in {"discount", "consume"}) =>
                total > 0 ]_vars

\* the customer's credit was used up by an earlier charge; the next charge
\* is answered no-credit
NoCreditNoDebitWitness ==
  \E c \in Calls :
    /\ sub[c].pc = "responded" /\ sub[c].message = "no-credit"
    /\ sub[c].customerEmail \in DOMAIN customerToReferrals
    /\ \E r \in Referrals : adjusted[r] > 0
    /\ \A d \in Calls : call[d].pc = "idle"

\* C30: the consume call of a subscription handler returns used = the
\* amountToUse the handler computed from the credit it read.
DebitsComputedCredit ==
  \A c \in Calls :
    (sub[c].pc = "consume" /\ call[c].pc = "done") =>
      call[c].used = sub[c].amountToUse

(***************************************************************************)
(* Properties of the referral-approved handler.                            *)
(***************************************************************************)
\* C31: when the Seal call of the referral-approved handler applied a discount
\* to at least one subscription and the commission is > 0, the handler sends
\* the referral platform an adjustment of minus the commission for the
\* referral: it waits on that POST.
AdjustmentForAppliedDiscount ==
  [][ \A result \in SealResults :
        ( /\ SealReturns(result)
          /\ ~result.threw /\ result.applied > 0
          /\ ~approval.commissionAmount.nan
          /\ approval.commissionAmount.val > 0 ) =>
          approval'.pc = "adjust" ]_vars

\* C32: a request that fails authentication is answered 401 and changes
\* nothing: a referral-approved POST that is not empty and carries no
\* signature or a wrong one, a secret being configured, and a subscription
\* POST with a wrong token, a shared secret being configured; the step leaves
\* the ledger and the consume calls as they were, and the handler waits on
\* no call of the subscription service or of the referral platform.
RejectedUnauthenticated ==
  [][ /\ \A req \in ApprovalRequests :
           ( /\ ReferralApprovedPost(req)
             /\ config.uppromoteWebhookSecret
             /\ req.body # "empty" /\ req.signature # "match" ) =>
             /\ approval'.pc = "responded" /\ approval'.status = 401
             /\ LedgerUntouched /\ sub' = sub
      /\ \A c \in Calls, req \in SubscriptionRequests :
           ( /\ SubscriptionPost(c, req)
             /\ config.webhookSharedSecret
             /\ req.token # "match" ) =>
             /\ sub'[c].pc = "responded" /\ sub'[c].status = 401
             /\ sub'[c].discount = "none"
             /\ LedgerUntouched /\ approval' = approval ]_vars

\* C33: the referral-approved handler answers 200 to every request that
\* passes the signature check, whatever fails afterwards: JSON.parse, the
\* payload, the Seal call, a discount, the adjustment; its only other answer
\* is the 401 of a signature that does not verify.
AlwaysAcknowledged ==
  (approval.pc = "responded") =>
    \/ approval.status = 200
    \/ approval.status = 401 /\ approval.failed = "signature"

\* a signed delivery stored its credit, a discount was applied, the
\* adjustment was rejected by the platform, and the handler answers 200
AlwaysAcknowledgedWitness ==
  /\ config.uppromoteWebhookSecret
  /\ approval.pc = "responded" /\ approval.failed = "adjustment"
  /\ approval.status = 200
  /\ \E r \in DOMAIN referralCredits : Balance(r) > 0

(***************************************************************************)
(* Properties of the index and of the reach of a consume call.             *)
(***************************************************************************)
\* the customers whose Set holds referral r
CustomersOf(r) ==
  { e \in DOMAIN customerToReferrals : r \in Range(customerToReferrals[e]) }

\* C34: every referralId is in the Set of at most one customer, so that its
\* remainingCommission counts in the total, and can be debited, for one
\* customer only, also after it was stored again under another email.
OneCustomerPerReferral ==
  \A r \in Referrals : Cardinality(CustomersOf(r)) <= 1

\* C35: a storeCredit for a referral that is already in the customer's Set
\* writes the new remainingCommission and leaves the Set, and so the order
\* in which consume walks it, as it was.
ReapprovalKeepsPosition ==
  (last.op = "store" /\ StoreAccepts(last.payload)
     /\ last.payload.id
          \in Range(IdsOf(last.index, extractEmailFromReferral(last.payload)))) =>
    /\ customerToReferrals = last.index
    /\ Balance(last.payload.id) = Commission(last.payload).val

\* the first of the two referrals of a customer is approved again with
\* another amount and is still the first
ReapprovalKeepsPositionWitness ==
  /\ last.op = "store" /\ StoreAccepts(last.payload)
  /\ LET e == extractEmailFromReferral(last.payload)
         ids == IdsOf(last.index, e)
     IN /\ Len(ids) = 2 /\ ids[1] = last.payload.id
        /\ last.credits[ids[1]].remainingCommission # Commission(last.payload).val
        /\ customerToReferrals[e][1] = last.payload.id
        /\ Balance(ids[1]) = Commission(last.payload).val

\* C36: consume(customer, X) with X <= 0 returns {used: 0, breakdown: []} at
\* once, invokes no adapter and leaves every record, every Set and every
\* other call as it found them, also for a customer who has credit.
NonPositiveRequest ==
  (last.op = "consume" /\ last.amountToUse <= 0) =>
    /\ call[last.c].pc = "done" /\ call[last.c].outcome = "returned"
    /\ call[last.c].used = 0 /\ call[last.c].breakdown = <<>>
    /\ call[last.c].sent = <<>>
    /\ LedgerAsFound
    /\ \A d \in Calls : d # last.c => call[d] = last.calls[d]

\* -1 is asked of a customer who holds credit in two referrals
NonPositiveRequestWitness ==
  /\ last.op = "consume" /\ last.amountToUse = -1
  /\ call[last.c].pc = "done"
  /\ Len(IdsOf(customerToReferrals, last.customerEmail)) = 2
  /\ \A r \in Range(IdsOf(customerToReferrals, last.customerEmail)) :
       Balance(r) > 0

\* C37: a step of a consume call changes no Set of the index, adds and
\* removes no record, and changes a record only by the debit of a referral
\* that is in the Set of the call's customer, the record keeping its other
\* fields; every adapter invocation of a call is for a referral of its
\* customer's Set.
ConsumeTouchesOwnRecords ==
  [][ (last'.op \notin {"store", "total"}) =>
        /\ customerToReferrals' = customerToReferrals
        /\ DOMAIN referralCredits' = DOMAIN referralCredits
        /\ \A r \in DOMAIN referralCredits :
             (referralCredits'[r] # referralCredits[r]) =>
               \E c \in Calls :
                 /\ call'[c].pc = "await" /\ call'[c].id = r
                 /\ call'[c].sent # call[c].sent
                 /\ r \in Range(customerToReferrals[call'[c].customerEmail])
                 /\ referralCredits'[r] =
                      [referralCredits[r] EXCEPT !.remainingCommission =
                         @ - call'[c].use]
        /\ \A c \in Calls :
             \A i \in 1..Len(call'[c].sent) :
               call'[c].sent[i].referralId
                 \in Range(customerToReferrals[call'[c].customerEmail]) ]_vars

\* a call got less than it asked for from its customer's only referral and
\* has returned; the credit of the other customer is whole
ConsumeTouchesOwnRecordsWitness ==
  \E c \in Calls :
    /\ call[c].pc = "done" /\ call[c].clean
    /\ call[c].amountToUse = 3 /\ call[c].used = 1
    /\ Len(call[c].sent) = 1
    /\ \E r \in DOMAIN referralCredits :
         /\ r \notin Range(customerToReferrals[call[c].customerEmail])
         /\ Balance(r) = 2

=============================================================================
